---- MODULE Spec2Model ----
(***************************************************************************)
(* A model of the Drive organizer: the keyword classifier and the batch    *)
(* driver of classifier.py, the OrganizationPlan of organizer.py, its      *)
(* interactive review loop, and the execution of an approved plan.         *)
(*                                                                         *)
(* Strings are TLA+ strings; lower-casing and substring search are         *)
(* computed character by character.  ClassificationResult objects live in  *)
(* a heap (the variable results) and the plan's buckets hold references to *)
(* them, as the Python lists do.                                           *)
(***************************************************************************)
EXTENDS Integers, Sequences, FiniteSets, TLC

\* ------------------------------------------------------------------ bounds

\* The longest batch of loose files the model classifies.
MaxFiles == 2
\* The most commands of one review before the one that ends it.
MaxOps == 2

\* ----------------------------------------------------------------- strings

\* str.lower() on one character.
LowerChar(c) ==
    CASE c = "A" -> "a" [] c = "B" -> "b" [] c = "C" -> "c" [] c = "D" -> "d"
      [] c = "E" -> "e" [] c = "F" -> "f" [] c = "G" -> "g" [] c = "H" -> "h"
      [] c = "I" -> "i" [] c = "J" -> "j" [] c = "K" -> "k" [] c = "L" -> "l"
      [] c = "M" -> "m" [] c = "N" -> "n" [] c = "O" -> "o" [] c = "P" -> "p"
      [] c = "Q" -> "q" [] c = "R" -> "r" [] c = "S" -> "s" [] c = "T" -> "t"
      [] c = "U" -> "u" [] c = "V" -> "v" [] c = "W" -> "w" [] c = "X" -> "x"
      [] c = "Y" -> "y" [] c = "Z" -> "z" [] OTHER -> c

\* str.lower()
RECURSIVE Lower(_)
Lower(s) ==
    IF Len(s) = 0 THEN ""
    ELSE LowerChar(SubSeq(s, 1, 1)) \o Lower(SubSeq(s, 2, Len(s)))

\* Python's `keyword in name` on strings: substring search.
Contains(keyword, name) ==
    \E k \in 1..(Len(name) - Len(keyword) + 1) :
        SubSeq(name, k, k + Len(keyword) - 1) = keyword

\* Python's `x in list`.
InList(x, list) == \E k \in 1..Len(list) : list[k] = x

\* ---------------------------------------------------------- rule classifier

\* MockClassifier.KEYWORD_RULES of classifier.py, in dict insertion order.
KEYWORD_RULES ==
    << <<"physics", "Physics Files">>, <<"newton", "Physics Files">>,
       <<"quantum", "Physics Files">>, <<"thermodynamics", "Physics Files">>,
       <<"resume", "Resume">>, <<"cv", "Resume">>,
       <<"cover_letter", "Job Applications">>,
       <<"cover letter", "Job Applications">>,
       <<"application", "Job Applications">>, <<"job", "Job Applications">>,
       <<"receipt", "Financial Records">>, <<"invoice", "Financial Records">>,
       <<"budget", "Financial Records">>, <<"tax", "Financial Records">>,
       <<"bank", "Financial Records">>,
       <<"vacation", "Travel Documents">>, <<"flight", "Travel Documents">>,
       <<"hotel", "Travel Documents">>, <<"itinerary", "Travel Documents">>,
       <<"passport", "Travel Documents">>,
       <<"project", "Projects">>, <<"code", "Projects">>,
       <<"github", "Projects">>,
       <<"notes", "Course Notes">>, <<"lecture", "Course Notes">>,
       <<"homework", "Course Notes">>, <<"assignment", "Course Notes">>,
       <<"exam", "Course Notes">>,
       <<"certificate", "Certificates">>, <<"certification", "Certificates">>,
       <<"diploma", "Certificates">>,
       <<"photo", "Photos">>, <<"img", "Photos">>, <<"image", "Photos">>,
       <<"screenshot", "Screenshots">> >>

\* A faulty scan that lets the last matching keyword decide.
LastMatch(name_lower) ==
    LET hits == {k \in 1..Len(KEYWORD_RULES) :
                    Contains(KEYWORD_RULES[k][1], name_lower)}
    IN IF hits = {} THEN 0
       ELSE CHOOSE k \in hits : \A j \in hits : k >= j

\* The index of the first rule whose keyword occurs in name_lower, 0 if none
\* (the for/break loop of MockClassifier.classify_file).
FirstMatch(name_lower) ==
    LET hits == {k \in 1..Len(KEYWORD_RULES) :
                    Contains(KEYWORD_RULES[k][1], name_lower)}
    IN IF hits = {} THEN 0
       ELSE CHOOSE k \in hits : \A j \in hits : k <= j

\* The index of the first folder of existing_folders that equals folder
\* case-insensitively, 0 if none.
FirstExisting(folder, existing_folders) ==
    LET hits == {k \in 1..Len(existing_folders) :
                    Lower(existing_folders[k]) = Lower(folder)}
    IN IF hits = {} THEN 0
       ELSE CHOOSE k \in hits : \A j \in hits : k <= j

\* MockClassifier.classify_file of classifier.py.
MockClassifyFile(file_name, file_id, existing_folders) ==
    LET m == FirstMatch(Lower(file_name))
    IN IF m # 0
       THEN LET e == FirstExisting(KEYWORD_RULES[m][2], existing_folders)
            IN [file_id |-> file_id,
                file_name |-> file_name,
                suggested_folder |->
                    IF e # 0 THEN existing_folders[e] ELSE KEYWORD_RULES[m][2],
                is_new_folder |-> (e = 0),
                confidence |-> "high",
                reasoning |-> "Matched keyword"]
       ELSE [file_id |-> file_id,
             file_name |-> file_name,
             suggested_folder |-> "Miscellaneous",
             is_new_folder |-> ~InList("Miscellaneous", existing_folders),
             confidence |-> "low",
             reasoning |-> "No clear category detected from filename"]

\* ------------------------------------------ rule classifier, stand-alone

\* mock_classifier.py holds a second MockClassifier whose rules are regular
\* expressions.  A pattern is kept as its text and as its alternatives, each
\* a sequence of tokens: k is "set" (a character of s), "any" (the dot),
\* "wb" (\b) or "end" ($), and q is the quantifier: "1", "?" or "*".  An
\* optional group (x)? gives two alternatives, with and without x.
Token(k, chars, q) == [k |-> k, s |-> chars, q |-> q]
Lit(str) == [i \in 1..Len(str) |-> Token("set", {SubSeq(str, i, i)}, "1")]
One(chars) == <<Token("set", chars, "1")>>
Opt(chars) == <<Token("set", chars, "?")>>
Star(chars) == <<Token("set", chars, "*")>>
AnyOpt == <<Token("any", {}, "?")>>
AnyStar == <<Token("any", {}, "*")>>
WordBoundary == <<Token("wb", {}, "1")>>
EndOfString == <<Token("end", {}, "1")>>

\* The characters \s matches, and those \w matches in a lower-cased name.
Whitespace == {" ", "\t", "\n", "\r", "\f"}
WordChars ==
    {"a", "b", "c", "d", "e", "f", "g", "h", "i", "j", "k", "l", "m", "n",
     "o", "p", "q", "r", "s", "t", "u", "v", "w", "x", "y", "z", "_",
     "0", "1", "2", "3", "4", "5", "6", "7", "8", "9"}

\* MockClassifier.KEYWORD_RULES of mock_classifier.py, in table order.
REGEX_KEYWORD_RULES ==
    <<
      [pattern |-> "sos[-_ ]?231", folder |-> "Social Sciences",
       alts |-> <<Lit("sos") \o Opt({"-", "_", " "}) \o Lit("231")>>],
      [pattern |-> "ort[-_ ]?11[12]", folder |-> "Oral Communication",
       alts |-> <<Lit("ort") \o Opt({"-", "_", " "}) \o Lit("11") \o One({"1", "2"})>>],
      [pattern |-> "comp[-_ ]?ii", folder |-> "Computer Science",
       alts |-> <<Lit("comp") \o Opt({"-", "_", " "}) \o Lit("ii")>>],
      [pattern |-> "c\\+\\+", folder |-> "Computer Science",
       alts |-> <<Lit("c++")>>],
      [pattern |-> "python", folder |-> "Computer Science",
       alts |-> <<Lit("python")>>],
      [pattern |-> "mansa.?musa", folder |-> "African History",
       alts |-> <<Lit("mansa") \o AnyOpt \o Lit("musa")>>],
      [pattern |-> "mali(an)?.*empire", folder |-> "African History",
       alts |-> <<Lit("malian") \o AnyStar \o Lit("empire"),
             Lit("mali") \o AnyStar \o Lit("empire")>>],
      [pattern |-> "african.*diaspora", folder |-> "African History",
       alts |-> <<Lit("african") \o AnyStar \o Lit("diaspora")>>],
      [pattern |-> "egypt(ian)?", folder |-> "African History",
       alts |-> <<Lit("egyptian"),
             Lit("egypt")>>],
      [pattern |-> "pharaoh", folder |-> "African History",
       alts |-> <<Lit("pharaoh")>>],
      [pattern |-> "mesopotamia", folder |-> "World History",
       alts |-> <<Lit("mesopotamia")>>],
      [pattern |-> "fertile.?crescent", folder |-> "World History",
       alts |-> <<Lit("fertile") \o AnyOpt \o Lit("crescent")>>],
      [pattern |-> "physics", folder |-> "Physics Files",
       alts |-> <<Lit("physics")>>],
      [pattern |-> "newton", folder |-> "Physics Files",
       alts |-> <<Lit("newton")>>],
      [pattern |-> "quantum", folder |-> "Physics Files",
       alts |-> <<Lit("quantum")>>],
      [pattern |-> "thermodynamics", folder |-> "Physics Files",
       alts |-> <<Lit("thermodynamics")>>],
      [pattern |-> "biology", folder |-> "Biology Coursework",
       alts |-> <<Lit("biology")>>],
      [pattern |-> "muscular", folder |-> "Biology Coursework",
       alts |-> <<Lit("muscular")>>],
      [pattern |-> "digestive", folder |-> "Biology Coursework",
       alts |-> <<Lit("digestive")>>],
      [pattern |-> "immune.*system", folder |-> "Biology Coursework",
       alts |-> <<Lit("immune") \o AnyStar \o Lit("system")>>],
      [pattern |-> "organs", folder |-> "Biology Coursework",
       alts |-> <<Lit("organs")>>],
      [pattern |-> "calculus", folder |-> "Mathematics",
       alts |-> <<Lit("calculus")>>],
      [pattern |-> "algorithm", folder |-> "Computer Science",
       alts |-> <<Lit("algorithm")>>],
      [pattern |-> "dijstra", folder |-> "Computer Science",
       alts |-> <<Lit("dijstra")>>],
      [pattern |-> "kruskal", folder |-> "Computer Science",
       alts |-> <<Lit("kruskal")>>],
      [pattern |-> "resume", folder |-> "Resume",
       alts |-> <<Lit("resume")>>],
      [pattern |-> "cv\\b", folder |-> "Resume",
       alts |-> <<Lit("cv") \o WordBoundary>>],
      [pattern |-> "curriculum.?vitae", folder |-> "Resume",
       alts |-> <<Lit("curriculum") \o AnyOpt \o Lit("vitae")>>],
      [pattern |-> "cover[_\\s]?letter", folder |-> "Job Applications",
       alts |-> <<Lit("cover") \o Opt({"_"} \cup Whitespace) \o Lit("letter")>>],
      [pattern |-> "application", folder |-> "Job Applications",
       alts |-> <<Lit("application")>>],
      [pattern |-> "internship", folder |-> "Job Applications",
       alts |-> <<Lit("internship")>>],
      [pattern |-> "job.*description", folder |-> "Job Applications",
       alts |-> <<Lit("job") \o AnyStar \o Lit("description")>>],
      [pattern |-> "interview", folder |-> "Interview Prep",
       alts |-> <<Lit("interview")>>],
      [pattern |-> "behavioral.*interview", folder |-> "Interview Prep",
       alts |-> <<Lit("behavioral") \o AnyStar \o Lit("interview")>>],
      [pattern |-> "treehacks", folder |-> "Hackathon Projects",
       alts |-> <<Lit("treehacks")>>],
      [pattern |-> "nexhacks", folder |-> "Hackathon Projects",
       alts |-> <<Lit("nexhacks")>>],
      [pattern |-> "hackathon", folder |-> "Hackathon Projects",
       alts |-> <<Lit("hackathon")>>],
      [pattern |-> "microsoft", folder |-> "Job Applications",
       alts |-> <<Lit("microsoft")>>],
      [pattern |-> "google", folder |-> "Job Applications",
       alts |-> <<Lit("google")>>],
      [pattern |-> "uber", folder |-> "Job Applications",
       alts |-> <<Lit("uber")>>],
      [pattern |-> "meta\\b", folder |-> "Job Applications",
       alts |-> <<Lit("meta") \o WordBoundary>>],
      [pattern |-> "amazon", folder |-> "Job Applications",
       alts |-> <<Lit("amazon")>>],
      [pattern |-> "d\\.?e\\.?\\s*shaw", folder |-> "Job Applications",
       alts |-> <<Lit("d") \o Opt({"."}) \o Lit("e") \o Opt({"."}) \o Star(Whitespace) \o Lit("shaw")>>],
      [pattern |-> "codepath", folder |-> "Tech Programs",
       alts |-> <<Lit("codepath")>>],
      [pattern |-> "code2040", folder |-> "Tech Programs",
       alts |-> <<Lit("code2040")>>],
      [pattern |-> "new.?technologists", folder |-> "Tech Programs",
       alts |-> <<Lit("new") \o AnyOpt \o Lit("technologists")>>],
      [pattern |-> "\\bisa\\b", folder |-> "ISA Documents",
       alts |-> <<WordBoundary \o Lit("isa") \o WordBoundary>>],
      [pattern |-> "international.*student", folder |-> "ISA Documents",
       alts |-> <<Lit("international") \o AnyStar \o Lit("student")>>],
      [pattern |-> "\\bgdsc\\b", folder |-> "GDSC Documents",
       alts |-> <<WordBoundary \o Lit("gdsc") \o WordBoundary>>],
      [pattern |-> "google.*developer", folder |-> "GDSC Documents",
       alts |-> <<Lit("google") \o AnyStar \o Lit("developer")>>],
      [pattern |-> "study.?notes", folder |-> "Course Notes",
       alts |-> <<Lit("study") \o AnyOpt \o Lit("notes")>>],
      [pattern |-> "notes", folder |-> "Course Notes",
       alts |-> <<Lit("notes")>>],
      [pattern |-> "lecture", folder |-> "Course Notes",
       alts |-> <<Lit("lecture")>>],
      [pattern |-> "assignment", folder |-> "Course Notes",
       alts |-> <<Lit("assignment")>>],
      [pattern |-> "homework", folder |-> "Course Notes",
       alts |-> <<Lit("homework")>>],
      [pattern |-> "\\bquiz\\b", folder |-> "Course Notes",
       alts |-> <<WordBoundary \o Lit("quiz") \o WordBoundary>>],
      [pattern |-> "\\bexam\\b", folder |-> "Course Notes",
       alts |-> <<WordBoundary \o Lit("exam") \o WordBoundary>>],
      [pattern |-> "\\bessay\\b", folder |-> "Essays",
       alts |-> <<WordBoundary \o Lit("essay") \o WordBoundary>>],
      [pattern |-> "research.*paper", folder |-> "Research Papers",
       alts |-> <<Lit("research") \o AnyStar \o Lit("paper")>>],
      [pattern |-> "speech", folder |-> "Speech Class",
       alts |-> <<Lit("speech")>>],
      [pattern |-> "presentation", folder |-> "Presentations",
       alts |-> <<Lit("presentation")>>],
      [pattern |-> "receipt", folder |-> "Financial Records",
       alts |-> <<Lit("receipt")>>],
      [pattern |-> "invoice", folder |-> "Financial Records",
       alts |-> <<Lit("invoice")>>],
      [pattern |-> "budget", folder |-> "Financial Records",
       alts |-> <<Lit("budget")>>],
      [pattern |-> "tax", folder |-> "Financial Records",
       alts |-> <<Lit("tax")>>],
      [pattern |-> "bank", folder |-> "Financial Records",
       alts |-> <<Lit("bank")>>],
      [pattern |-> "statement", folder |-> "Financial Records",
       alts |-> <<Lit("statement")>>],
      [pattern |-> "transcript", folder |-> "Personal Documents",
       alts |-> <<Lit("transcript")>>],
      [pattern |-> "certificate", folder |-> "Certificates",
       alts |-> <<Lit("certificate")>>],
      [pattern |-> "certification", folder |-> "Certificates",
       alts |-> <<Lit("certification")>>],
      [pattern |-> "diploma", folder |-> "Certificates",
       alts |-> <<Lit("diploma")>>],
      [pattern |-> "recommendation", folder |-> "Recommendations",
       alts |-> <<Lit("recommendation")>>],
      [pattern |-> "reference", folder |-> "Recommendations",
       alts |-> <<Lit("reference")>>],
      [pattern |-> "photo", folder |-> "Photos",
       alts |-> <<Lit("photo")>>],
      [pattern |-> "\\bimg\\b", folder |-> "Photos",
       alts |-> <<WordBoundary \o Lit("img") \o WordBoundary>>],
      [pattern |-> "image", folder |-> "Photos",
       alts |-> <<Lit("image")>>],
      [pattern |-> "\\.jpe?g$", folder |-> "Photos",
       alts |-> <<Lit(".jp") \o Opt({"e"}) \o Lit("g") \o EndOfString>>],
      [pattern |-> "\\.png$", folder |-> "Photos",
       alts |-> <<Lit(".png") \o EndOfString>>],
      [pattern |-> "screenshot", folder |-> "Screenshots",
       alts |-> <<Lit("screenshot")>>],
      [pattern |-> "screen.?recording", folder |-> "Screen Recordings",
       alts |-> <<Lit("screen") \o AnyOpt \o Lit("recording")>>],
      [pattern |-> "\\.mp4$", folder |-> "Videos",
       alts |-> <<Lit(".mp4") \o EndOfString>>],
      [pattern |-> "\\.mov$", folder |-> "Videos",
       alts |-> <<Lit(".mov") \o EndOfString>>],
      [pattern |-> "vid[-_]", folder |-> "Videos",
       alts |-> <<Lit("vid") \o One({"-", "_"})>>],
      [pattern |-> "project", folder |-> "Projects",
       alts |-> <<Lit("project")>>],
      [pattern |-> "github", folder |-> "Projects",
       alts |-> <<Lit("github")>>],
      [pattern |-> "firebase", folder |-> "Projects",
       alts |-> <<Lit("firebase")>>]
    >>

\* The characters of a string.
Chars(str) == [i \in 1..Len(str) |-> SubSeq(str, i, i)]

\* \b at position i of cs: exactly one side is a word character.
AtBoundary(cs, i) ==
    (i > 1 /\ cs[i - 1] \in WordChars) # (i <= Len(cs) /\ cs[i] \in WordChars)

\* $ at position i of cs: the end, or just before a final newline.
AtEnd(cs, i) == i = Len(cs) + 1 \/ (i = Len(cs) /\ cs[i] = "\n")

\* Whether the tokens from the t-th on match cs from position i on.
RECURSIVE MatchAt(_, _, _, _)
MatchAt(toks, t, cs, i) ==
    IF t > Len(toks) THEN TRUE
    ELSE LET tok == toks[t]
             here == /\ i <= Len(cs)
                     /\ IF tok.k = "any" THEN cs[i] # "\n" ELSE cs[i] \in tok.s
         IN IF tok.k = "wb"
            THEN AtBoundary(cs, i) /\ MatchAt(toks, t + 1, cs, i)
            ELSE IF tok.k = "end"
            THEN AtEnd(cs, i) /\ MatchAt(toks, t + 1, cs, i)
            ELSE IF tok.q = "1"
            THEN here /\ MatchAt(toks, t + 1, cs, i + 1)
            ELSE IF tok.q = "?"
            THEN \/ here /\ MatchAt(toks, t + 1, cs, i + 1)
                 \/ MatchAt(toks, t + 1, cs, i)
            ELSE \/ here /\ MatchAt(toks, t, cs, i + 1)
                 \/ MatchAt(toks, t + 1, cs, i)

\* re.search(pattern, name): a match of some alternative at some position.
Search(rule, cs) ==
    \E a \in 1..Len(rule.alts) : \E i \in 1..(Len(cs) + 1) :
        MatchAt(rule.alts[a], 1, cs, i)

\* The index of the first rule of the table that matches name_lower, 0 if
\* none (the for/break loop of classify_file).
RegexFirstMatch(rules, name_lower) ==
    LET cs == Chars(name_lower)
        hits == {k \in 1..Len(rules) : Search(rules[k], cs)}
    IN IF hits = {} THEN 0
       ELSE CHOOSE k \in hits : \A j \in hits : k <= j

\* The fields of the ClassificationResult dataclass of mock_classifier.py.
ResultFields ==
    {"file_id", "file_name", "suggested_folder", "is_new_folder", "reasoning"}

\* ClassificationResult(**kwargs) of mock_classifier.py: the generated
\* __init__ raises TypeError for a keyword that is not a field.
NewResult(kwargs) ==
    IF DOMAIN kwargs \subseteq ResultFields
    THEN [raised |-> "None", value |-> kwargs]
    ELSE [raised |-> "TypeError", value |-> <<>>]

\* The value of suggested_folder after the for/break loop of classify_file
\* of mock_classifier.py, "" for None.
RegexSuggestedFolder(rules, name_lower) ==
    LET m == RegexFirstMatch(rules, name_lower)
    IN IF m # 0 THEN rules[m].folder ELSE ""

\* MockClassifier.classify_file of mock_classifier.py with rule table rules.
RegexClassifyFile(rules, file_name, file_id, existing_folders) ==
    LET name_lower == Lower(file_name)
        m == RegexFirstMatch(rules, name_lower)
    IN IF m # 0
       THEN LET e == FirstExisting(rules[m].folder, existing_folders)
            IN NewResult([file_id |-> file_id,
                          file_name |-> file_name,
                          suggested_folder |->
                              IF e # 0 THEN existing_folders[e]
                              ELSE rules[m].folder,
                          is_new_folder |-> (e = 0),
                          confidence |-> "high",
                          reasoning |-> "Matched pattern"])
       ELSE IF Contains("untitled", name_lower)
       THEN NewResult([file_id |-> file_id,
                       file_name |-> file_name,
                       suggested_folder |-> "Drafts",
                       is_new_folder |-> ~InList("Drafts", existing_folders),
                       confidence |-> "low",
                       reasoning |-> "Untitled document - likely a draft"])
       ELSE NewResult([file_id |-> file_id,
                       file_name |-> file_name,
                       suggested_folder |-> "To Sort",
                       is_new_folder |-> ~InList("To Sort", existing_folders),
                       confidence |-> "low",
                       reasoning |->
                           "No clear category detected - needs manual review"])

\* list.insert(i, x): a negative i counts from the end, and i is then
\* clamped to 0..len(list); x goes before the item now at that index.
ListInsert(list, i, x) ==
    LET n == Len(list)
        j == IF i < 0 THEN i + n ELSE i
        at == IF j < 0 THEN 0 ELSE IF j > n THEN n ELSE j
    IN SubSeq(list, 1, at) \o <<x>> \o SubSeq(list, at + 1, n)

\* MockClassifier.add_rule of mock_classifier.py: the table after the call.
add_rule(rules, rule, priority) ==
    IF priority = -1 THEN Append(rules, rule)
    ELSE ListInsert(rules, priority, rule)

\* MockClassifier.get_rules_for_folder of mock_classifier.py.
get_rules_for_folder(rules, folder) ==
    LET Pick[k \in 0..Len(rules)] ==
            IF k = 0 THEN <<>>
            ELSE IF rules[k].folder = folder
                 THEN Append(Pick[k - 1], rules[k].pattern)
                 ELSE Pick[k - 1]
    IN Pick[Len(rules)]

\* What the external model does for one prompt of FileClassifier.classify_file:
\* generate_content raises, the text is not JSON (so _parse_response raises),
\* or the text parses to a dict in which each key may be absent.
Absent == "<absent>"
AIResponses ==
    { [kind |-> "raise", suggested_folder |-> Absent, is_new_folder |-> Absent,
       confidence |-> Absent, reasoning |-> Absent],
      [kind |-> "malformed", suggested_folder |-> Absent,
       is_new_folder |-> Absent, confidence |-> Absent, reasoning |-> Absent],
      [kind |-> "json", suggested_folder |-> Absent, is_new_folder |-> "false",
       confidence |-> "medium", reasoning |-> Absent] }

\* dict.get(key, default) on the parsed response.
Get(value, default) == IF value = Absent THEN default ELSE value

\* The non-mock branch of FileClassifier.classify_file: the try block builds
\* the result from the parsed dict, the except block builds the fallback.
AIClassifyFile(file_name, file_id, existing_folders, response) ==
    IF response.kind = "json"
    THEN [file_id |-> file_id,
          file_name |-> file_name,
          suggested_folder |-> Get(response.suggested_folder, "Uncategorized"),
          is_new_folder |-> (Get(response.is_new_folder, "true") = "true"),
          confidence |-> Get(response.confidence, "low"),
          reasoning |-> Get(response.reasoning, "No reasoning provided")]
    ELSE [file_id |-> file_id,
          file_name |-> file_name,
          suggested_folder |-> "Uncategorized",
          is_new_folder |-> TRUE,
          confidence |-> "low",
          reasoning |-> "Classification failed"]

\* FileClassifier.classify_file: delegate to the mock classifier in mock mode.
ClassifyFile(mock, file_name, file_id, existing_folders, response) ==
    IF mock THEN MockClassifyFile(file_name, file_id, existing_folders)
    ELSE AIClassifyFile(file_name, file_id, existing_folders, response)

\* A faulty growth of the working list that stores the new name in lower
\* case.
GrowFoldersLower(folders, result) ==
    IF result.is_new_folder /\ ~InList(result.suggested_folder, folders)
    THEN Append(folders, Lower(result.suggested_folder))
    ELSE folders

\* The working known-folder list after one iteration of classify_multiple.
GrowFolders(folders, result) ==
    IF result.is_new_folder /\ ~InList(result.suggested_folder, folders)
    THEN Append(folders, result.suggested_folder)
    ELSE folders

\* ------------------------------------------------------- OrganizationPlan

\* A plan is [folder_assignments, new_folders, existing_folders]:
\* folder_assignments is the dict as the sequence of its entries in insertion
\* order, each [folder, files] with files a sequence of references into the
\* heap of ClassificationResult objects.
EmptyPlan == [folder_assignments |-> <<>>, new_folders |-> {},
              existing_folders |-> {}]

\* The keys of the dict, in iteration order.
Keys(fa) == [k \in 1..Len(fa) |-> fa[k].folder]

\* The position of key folder in the dict, 0 if it is not a key.
KeyIndex(fa, folder) ==
    IF \E k \in 1..Len(fa) : fa[k].folder = folder
    THEN CHOOSE k \in 1..Len(fa) : fa[k].folder = folder
    ELSE 0

\* seq without its k-th element (list.pop(k), del dict[key]).
RemoveAt(seq, k) == SubSeq(seq, 1, k - 1) \o SubSeq(seq, k + 1, Len(seq))

\* A faulty dict[key] = files that adds files to the list a present key has.
SetKeyMerge(fa, folder, files) ==
    IF KeyIndex(fa, folder) # 0
    THEN [fa EXCEPT ![KeyIndex(fa, folder)].files = @ \o files]
    ELSE Append(fa, [folder |-> folder, files |-> files])

\* dict[key] = files: in place when key is present, appended otherwise.
SetKey(fa, folder, files) ==
    IF KeyIndex(fa, folder) # 0
    THEN [fa EXCEPT ![KeyIndex(fa, folder)].files = files]
    ELSE Append(fa, [folder |-> folder, files |-> files])

\* OrganizationPlan.add_result on the result object ref of heap.
add_result(plan, heap, ref) ==
    LET folder == heap[ref].suggested_folder
        fa == plan.folder_assignments
        fa1 == IF KeyIndex(fa, folder) = 0 THEN SetKey(fa, folder, <<>>) ELSE fa
        k == KeyIndex(fa1, folder)
    IN [folder_assignments |-> [fa1 EXCEPT ![k].files = Append(@, ref)],
        new_folders |->
            IF heap[ref].is_new_folder THEN plan.new_folders \cup {folder}
            ELSE plan.new_folders,
        existing_folders |->
            IF heap[ref].is_new_folder THEN plan.existing_folders
            ELSE plan.existing_folders \cup {folder}]

\* A faulty rename_folder that files an empty bucket under new_name when
\* old_name is not a key.
RenameFolderMakesBucket(plan, heap, old_name, new_name) ==
    [plan |-> [plan EXCEPT !.folder_assignments = SetKey(@, new_name, <<>>)],
     heap |-> heap, ret |-> "False"]

\* OrganizationPlan.rename_folder.  ret is "False" (old_name is not a key),
\* "True", or "AttributeError": line 46 calls new_folders.removed, which a
\* set does not have, so the call raises after the dict has been re-keyed
\* and the results rewritten.
rename_folder(plan, heap, old_name, new_name) ==
    LET fa == plan.folder_assignments
        k == KeyIndex(fa, old_name)
    IN IF k = 0
       THEN [plan |-> plan, heap |-> heap, ret |-> "False"]
       ELSE LET files == fa[k].files
                popped == RemoveAt(fa, k)
                heap1 == [r \in DOMAIN heap |->
                             IF \E j \in 1..Len(files) : files[j] = r
                             THEN [heap[r] EXCEPT !.suggested_folder = new_name]
                             ELSE heap[r]]
                plan1 == [plan EXCEPT
                             !.folder_assignments = SetKey(popped, new_name, files)]
            IN IF old_name \in plan.new_folders
               THEN [plan |-> plan1, heap |-> heap1, ret |-> "AttributeError"]
               ELSE [plan |-> plan1, heap |-> heap1, ret |-> "True"]

\* The first (bucket, position) whose result has file_id, scanning the
\* buckets in dict order and each bucket in list order; <<0, 0>> if none.
FindFile(fa, heap, file_id) ==
    LET hits == UNION {{<<b, j>> : j \in {j \in 1..Len(fa[b].files) :
                                        heap[fa[b].files[j]].file_id = file_id}} :
                       b \in 1..Len(fa)}
    IN IF hits = {} THEN <<0, 0>>
       ELSE CHOOSE p \in hits :
                \A q \in hits : p[1] < q[1] \/ (p[1] = q[1] /\ p[2] <= q[2])

\* A faulty remove_file that reports the result found and leaves it filed.
RemoveFileLeavesResult(plan, heap, file_id) ==
    [plan |-> plan,
     ret |-> FindFile(plan.folder_assignments, heap, file_id) # <<0, 0>>]

\* OrganizationPlan.remove_file.
remove_file(plan, heap, file_id) ==
    LET fa == plan.folder_assignments
        p == FindFile(fa, heap, file_id)
    IN IF p = <<0, 0>>
       THEN [plan |-> plan, ret |-> FALSE]
       ELSE LET files == RemoveAt(fa[p[1]].files, p[2])
            IN IF files = <<>>
               THEN [plan |-> [plan EXCEPT
                                  !.folder_assignments = RemoveAt(fa, p[1]),
                                  !.new_folders = @ \ {fa[p[1]].folder}],
                     ret |-> TRUE]
               ELSE [plan |-> [plan EXCEPT
                                  !.folder_assignments[p[1]].files = files],
                     ret |-> TRUE]

\* OrganizationPlan.get_summary.
get_summary(plan) ==
    LET fa == plan.folder_assignments
        Sum[k \in 0..Len(fa)] ==
            IF k = 0 THEN 0 ELSE Sum[k - 1] + Len(fa[k].files)
    IN [total_files |-> Sum[Len(fa)],
        new_folders |-> Cardinality(plan.new_folders),
        existing_folders |-> Cardinality(plan.existing_folders),
        total_folders |-> Len(fa)]

\* The list all_files of skip_file_interactive and move_file_interactive:
\* every (result, folder) pair, bucket by bucket.
RECURSIVE AllFiles(_)
AllFiles(fa) ==
    IF fa = <<>> THEN <<>>
    ELSE [j \in 1..Len(fa[1].files) |-> <<fa[1].files[j], fa[1].folder>>]
         \o AllFiles(Tail(fa))

\* ------------------------------------------------------- operator input

\* str.upper() on one character.
UpperChar(c) ==
    CASE c = "a" -> "A" [] c = "b" -> "B" [] c = "c" -> "C" [] c = "d" -> "D"
      [] c = "e" -> "E" [] c = "f" -> "F" [] c = "g" -> "G" [] c = "h" -> "H"
      [] c = "i" -> "I" [] c = "j" -> "J" [] c = "k" -> "K" [] c = "l" -> "L"
      [] c = "m" -> "M" [] c = "n" -> "N" [] c = "o" -> "O" [] c = "p" -> "P"
      [] c = "q" -> "Q" [] c = "r" -> "R" [] c = "s" -> "S" [] c = "t" -> "T"
      [] c = "u" -> "U" [] c = "v" -> "V" [] c = "w" -> "W" [] c = "x" -> "X"
      [] c = "y" -> "Y" [] c = "z" -> "Z" [] OTHER -> c

\* str.upper()
RECURSIVE Upper(_)
Upper(s) ==
    IF Len(s) = 0 THEN ""
    ELSE UpperChar(SubSeq(s, 1, 1)) \o Upper(SubSeq(s, 2, Len(s)))

\* str.strip(), for the blanks an operator types.
RECURSIVE Strip(_)
Strip(s) ==
    IF Len(s) = 0 THEN ""
    ELSE IF SubSeq(s, 1, 1) = " " THEN Strip(SubSeq(s, 2, Len(s)))
    ELSE IF SubSeq(s, Len(s), Len(s)) = " " THEN Strip(SubSeq(s, 1, Len(s) - 1))
    ELSE s

\* The value of one decimal digit, -1 for any other character.
DigitValue(c) ==
    CASE c = "0" -> 0 [] c = "1" -> 1 [] c = "2" -> 2 [] c = "3" -> 3
      [] c = "4" -> 4 [] c = "5" -> 5 [] c = "6" -> 6 [] c = "7" -> 7
      [] c = "8" -> 8 [] c = "9" -> 9 [] OTHER -> -1

\* The value of a string of digits, -1 if it is empty or has another character.
RECURSIVE Digits(_)
Digits(s) ==
    IF Len(s) = 0 THEN -1
    ELSE LET d == DigitValue(SubSeq(s, Len(s), Len(s)))
         IN IF d = -1 THEN -1
            ELSE IF Len(s) = 1 THEN d
            ELSE LET h == Digits(SubSeq(s, 1, Len(s) - 1))
                 IN IF h = -1 THEN -1 ELSE 10 * h + d

\* int(s): blanks around the number and a sign are accepted; ok is FALSE where
\* int raises ValueError.
ParseInt(s) ==
    LET t == Strip(s)
        signed == Len(t) > 0 /\ SubSeq(t, 1, 1) \in {"-", "+"}
        v == Digits(IF signed THEN SubSeq(t, 2, Len(t)) ELSE t)
    IN IF v = -1 THEN [ok |-> FALSE, value |-> 0]
       ELSE [ok |-> TRUE,
             value |-> IF signed /\ SubSeq(t, 1, 1) = "-" THEN 0 - v ELSE v]

\* What the operator may type at the menu, at a yes/no question, at a number
\* prompt, at the destination prompt and at a folder-name prompt.
MenuInputs == {"a", " R", "s", "M ", "c", "x"}
ConfirmInputs == {" YES ", "no", "y"}
NumberInputs == {"0", "1", "2", "3", "9", "x"}
DestInputs == NumberInputs \cup {" n"}
NameInputs == {"Archive", " Physics Files ", "  "}

\* The same inputs as the review loop reads them: the menu choice is
\* input().strip().upper(), an answer is input().strip().lower(), a number
\* is int(input()), a destination is input().strip().upper() and then
\* int(dest) unless it is 'N', a folder name is input().strip().
Choices == {Upper(Strip(t)) : t \in MenuInputs}
Answers == {Lower(Strip(t)) : t \in ConfirmInputs}
Numbers == {ParseInt(t) : t \in NumberInputs}
Dests == {[text |-> Upper(Strip(t)), int |-> ParseInt(Upper(Strip(t)))] :
          t \in DestInputs}
Names == {Strip(t) : t \in NameInputs}

\* ------------------------------------------------------- review dialogs

\* What a dialog hands back: the plan and the heap after it, how it ended
\* (status), and what it selected: the result (ref, 0 if none), the folder it
\* was taken from or renamed from (src) and the folder named as target (dst).
Outcome(plan, heap, status, ref, src, dst) ==
    [plan |-> plan, heap |-> heap, status |-> status, ref |-> ref,
     src |-> src, dst |-> dst]

\* rename_folder_interactive: n is int(input()) at the folder-number prompt
\* (n.ok is FALSE where int raises ValueError), new_name is input().strip()
\* at the new-name prompt.
rename_folder_interactive(plan, heap, n, new_name) ==
    LET folders == Keys(plan.folder_assignments)
        idx == n.value - 1
    IN IF ~n.ok THEN Outcome(plan, heap, "invalid", 0, "", "")
       ELSE IF idx = -1 THEN Outcome(plan, heap, "cancelled", 0, "", "")
       ELSE IF 0 <= idx /\ idx < Len(folders)
       THEN LET old_name == folders[idx + 1]
                r == rename_folder(plan, heap, old_name, new_name)
            IN IF new_name # ""
               THEN Outcome(r.plan, r.heap, r.ret, 0, old_name, new_name)
               ELSE Outcome(plan, heap, "empty", 0, "", "")
       ELSE Outcome(plan, heap, "invalid", 0, "", "")

\* skip_file_interactive: n is int(input()) at the file-number prompt.
skip_file_interactive(plan, heap, n) ==
    LET all_files == AllFiles(plan.folder_assignments)
        idx == n.value - 1
    IN IF ~n.ok THEN Outcome(plan, heap, "invalid", 0, "", "")
       ELSE IF idx = -1 THEN Outcome(plan, heap, "cancelled", 0, "", "")
       ELSE IF 0 <= idx /\ idx < Len(all_files)
       THEN LET ref == all_files[idx + 1][1]
            IN Outcome(remove_file(plan, heap, heap[ref].file_id).plan, heap,
                       "removed", ref, all_files[idx + 1][2], "")
       ELSE Outcome(plan, heap, "invalid", 0, "", "")

\* A faulty move that files the result under folder and leaves it in its
\* old bucket too.
MoveResultKeepsOld(plan, heap, ref, folder, typed) ==
    LET heap1 == [heap EXCEPT
                     ![ref].suggested_folder = folder,
                     ![ref].is_new_folder =
                         IF typed THEN TRUE ELSE folder \in plan.new_folders]
    IN [plan |-> add_result(plan, heap1, ref), heap |-> heap1]

\* The remove / rewrite / add of move_file_interactive: the result ref is
\* removed by its file_id, rewritten to folder, and added again.  typed says
\* whether folder was typed as a new name (is_new_folder = True) or picked
\* from the list (is_new_folder = folder in new_folders, read after the
\* removal).
MoveResult(plan, heap, ref, folder, typed) ==
    LET removed == remove_file(plan, heap, heap[ref].file_id).plan
        heap1 == [heap EXCEPT
                     ![ref].suggested_folder = folder,
                     ![ref].is_new_folder =
                         IF typed THEN TRUE ELSE folder \in removed.new_folders]
    IN [plan |-> add_result(removed, heap1, ref), heap |-> heap1]

\* move_file_interactive: n is int(input()) at the file-number prompt, dest
\* is the destination prompt's input().strip().upper() (dest.text) with its
\* int(dest) (dest.int), new_folder is input().strip() at the name prompt.
move_file_interactive(plan, heap, n, dest, new_folder) ==
    LET all_files == AllFiles(plan.folder_assignments)
        folders == Keys(plan.folder_assignments)
        idx == n.value - 1
    IN IF ~n.ok THEN Outcome(plan, heap, "invalid", 0, "", "")
       ELSE IF idx = -1 THEN Outcome(plan, heap, "cancelled", 0, "", "")
       ELSE IF 0 <= idx /\ idx < Len(all_files)
       THEN LET ref == all_files[idx + 1][1]
                old_folder == all_files[idx + 1][2]
                d == dest.text
                di == dest.int
                dest_idx == di.value - 1
            IN IF d = "N"
               THEN IF new_folder # ""
                    THEN LET m == MoveResult(plan, heap, ref, new_folder, TRUE)
                         IN Outcome(m.plan, m.heap, "moved", ref, old_folder,
                                    new_folder)
                    ELSE Outcome(plan, heap, "empty", 0, "", "")
               ELSE IF ~di.ok
               THEN Outcome(plan, heap, "invalid", 0, "", "")
               ELSE IF 0 <= dest_idx /\ dest_idx < Len(folders)
               THEN LET m == MoveResult(plan, heap, ref,
                                        folders[dest_idx + 1], FALSE)
                    IN Outcome(m.plan, m.heap, "moved", ref, old_folder,
                               folders[dest_idx + 1])
               ELSE Outcome(plan, heap, "invalid", 0, "", "")
       ELSE Outcome(plan, heap, "invalid", 0, "", "")

\* ------------------------------------------------------------- the program

\* The loose files Drive may list.
FileSet ==
    { [id |-> "1", name |-> "Newton_Notes.pdf"],
      [id |-> "2", name |-> "PHYSICS_hw.txt"],
      [id |-> "3", name |-> "random_file_xyz.bin"] }

\* The batches get_loose_files may return: no file listed twice.
Batches ==
    UNION {{b \in [1..n -> FileSet] : \A j, k \in 1..n : b[j] = b[k] => j = k} :
           n \in 0..MaxFiles}

\* The top-level folder names get_root_folders may return.
KnownFolderLists ==
    { <<>>, <<"physics files">>, <<"Archive", "Miscellaneous">> }

VARIABLES
    use_mock,        \* main's use_mock
    dry_run,         \* main's dry_run
    loose_files,     \* main's loose_files: the batch
    folder_names,    \* main's folder_names: the caller's known-folder list
    all_folders,     \* classify_multiple's working copy of the list
    results,         \* classify_multiple's results: the heap of result objects
    plan,            \* main's plan
    built,           \* how many results main has added to the plan
    pc,              \* where main is: classify, build, review, execute,
                     \* create, move, done
    review,          \* NotStarted, Reviewing, Approved, Cancelled, Raised
    approved_plan,   \* what interactive_review returned
    last,            \* the last review command and how it ended
    ops,             \* the review commands handled so far
    folder_ids,      \* execute_plan's folder_ids: the names that have an id
    success_count,   \* execute_plan's success_count
    error_count,     \* execute_plan's error_count
    store_log,       \* the calls made on the Drive service that change it:
                     \* the folder creations and, in order, the file moves
    outcome,         \* how main ended
    keyword_rules,   \* MockClassifier.KEYWORD_RULES of mock_classifier.py, a
                     \* class attribute: <<>> while the module is not loaded
    batch            \* the frame of a classify_multiple call made by a
                     \* caller other than main

vars == <<use_mock, dry_run, loose_files, folder_names, all_folders, results,
          plan, built, pc, review, approved_plan, last, ops, folder_ids,
          success_count, error_count, store_log, outcome, keyword_rules,
          batch>>

inputVars == <<use_mock, dry_run, loose_files, folder_names>>
classifyVars == <<all_folders, results>>
reviewVars == <<review, approved_plan, last, ops>>
executeVars == <<folder_ids, success_count, error_count, store_log>>
libraryVars == <<keyword_rules, batch>>

NoCommand == [cmd |-> "", status |-> "", ref |-> 0, src |-> "", dst |-> ""]
NoPlan == [some |-> FALSE, plan |-> EmptyPlan]
NoBatch == [lists |-> <<>>, existing_folders |-> 0, all_folders |-> 0,
            progress_callback |-> FALSE, calls |-> <<>>]

\* main up to the call of classify_multiple, and classify_multiple up to its
\* loop.  With no loose file main returns at once.
Init ==
    /\ use_mock \in BOOLEAN
    /\ dry_run \in BOOLEAN
    /\ loose_files \in Batches
    /\ folder_names \in KnownFolderLists
    /\ all_folders = folder_names
    /\ results = <<>>
    /\ plan = EmptyPlan
    /\ built = 0
    /\ pc = IF loose_files = <<>> THEN "done" ELSE "classify"
    /\ review = "NotStarted"
    /\ approved_plan = NoPlan
    /\ last = NoCommand
    /\ ops = 0
    /\ folder_ids = {}
    /\ success_count = 0
    /\ error_count = 0
    /\ store_log = [creates |-> {}, moves |-> <<>>]
    /\ outcome = IF loose_files = <<>> THEN "no_files" ELSE ""
    /\ keyword_rules = <<>>
    /\ batch = NoBatch

\* A faulty append that puts the newest result first.
PrependResult(list, result) == <<result>> \o list

\* results.append(result) in classify_multiple.
AppendResult(list, result) == Append(list, result)

\* One iteration of the loop of classify_multiple: classify the next file
\* against the working list, grow the list, append the result.
ClassifyStep ==
    /\ pc = "classify"
    /\ Len(results) < Len(loose_files)
    /\ \E response \in AIResponses :
        LET file == loose_files[Len(results) + 1]
            result == ClassifyFile(use_mock, file.name, file.id, all_folders,
                                   response)
        IN /\ all_folders' = GrowFolders(all_folders, result)
           /\ results' = AppendResult(results, result)
    /\ UNCHANGED <<inputVars, libraryVars, plan, built, pc, reviewVars, executeVars, outcome>>

\* classify_multiple returns its results, its working list goes out of
\* scope, and main creates the empty plan.
ClassifyReturn ==
    /\ pc = "classify"
    /\ Len(results) = Len(loose_files)
    /\ pc' = "build"
    /\ all_folders' = <<>>
    /\ UNCHANGED <<inputVars, libraryVars, results, plan, built, reviewVars, executeVars,
                   outcome>>

\* One iteration of main's loop over the results: plan.add_result(result).
BuildStep ==
    /\ pc = "build"
    /\ built < Len(results)
    /\ plan' = add_result(plan, results, built + 1)
    /\ built' = built + 1
    /\ UNCHANGED <<inputVars, libraryVars, classifyVars, pc, reviewVars, executeVars, outcome>>

\* The plan is built: a dry run displays it and returns, otherwise main
\* enters interactive_review.
BuildReturn ==
    /\ pc = "build"
    /\ built = Len(results)
    /\ IF dry_run
       THEN /\ pc' = "done"
            /\ outcome' = "dry_run"
            /\ review' = review
       ELSE /\ pc' = "review"
            /\ outcome' = outcome
            /\ review' = "Reviewing"
    /\ UNCHANGED <<inputVars, libraryVars, classifyVars, plan, built, approved_plan, last,
                   ops, executeVars>>

\* A faulty [A] that returns the plan whatever the answer to "Proceed?" is.
ReviewApproveAnyAnswer ==
    /\ pc = "review"
    /\ \E choice \in Choices, confirm \in Answers :
        /\ choice = "A"
        /\ review' = "Approved"
        /\ approved_plan' = [some |-> TRUE, plan |-> plan]
        /\ pc' = "execute"
        /\ last' = [NoCommand EXCEPT !.cmd = "A",
                       !.status = IF confirm = "yes" THEN "confirmed"
                                  ELSE "declined"]
        /\ ops' = IF confirm = "yes" \/ ops >= MaxOps THEN ops ELSE ops + 1
    /\ UNCHANGED <<inputVars, libraryVars, classifyVars, plan, built, executeVars, outcome>>

\* [A]: on "yes" interactive_review returns the plan, otherwise it loops.
ReviewApprove ==
    /\ pc = "review"
    /\ \E choice \in Choices, confirm \in Answers :
        /\ choice = "A"
        /\ IF confirm = "yes"
           THEN /\ review' = "Approved"
                /\ approved_plan' = [some |-> TRUE, plan |-> plan]
                /\ pc' = "execute"
                /\ last' = [NoCommand EXCEPT !.cmd = "A", !.status = "confirmed"]
                /\ ops' = ops
           ELSE /\ ops < MaxOps
                /\ last' = [NoCommand EXCEPT !.cmd = "A", !.status = "declined"]
                /\ ops' = ops + 1
                /\ UNCHANGED <<review, approved_plan, pc>>
    /\ UNCHANGED <<inputVars, libraryVars, classifyVars, plan, built, executeVars, outcome>>

\* A faulty [C] after which main goes on to execute the plan under review.
ReviewCancelThenExecute ==
    /\ pc = "review"
    /\ \E choice \in Choices, confirm \in Answers :
        /\ choice = "C"
        /\ IF confirm = "yes"
           THEN /\ review' = "Cancelled"
                /\ approved_plan' = [some |-> TRUE, plan |-> plan]
                /\ pc' = "execute"
                /\ last' = [NoCommand EXCEPT !.cmd = "C", !.status = "confirmed"]
                /\ ops' = ops
           ELSE /\ ops < MaxOps
                /\ last' = [NoCommand EXCEPT !.cmd = "C", !.status = "declined"]
                /\ ops' = ops + 1
                /\ UNCHANGED <<review, approved_plan, pc>>
    /\ UNCHANGED <<inputVars, libraryVars, classifyVars, plan, built, executeVars, outcome>>

\* [C]: on "yes" interactive_review returns None and main returns without
\* executing, otherwise the loop goes on.
ReviewCancel ==
    /\ pc = "review"
    /\ \E choice \in Choices, confirm \in Answers :
        /\ choice = "C"
        /\ IF confirm = "yes"
           THEN /\ review' = "Cancelled"
                /\ pc' = "done"
                /\ outcome' = "cancelled"
                /\ last' = [NoCommand EXCEPT !.cmd = "C", !.status = "confirmed"]
                /\ ops' = ops
           ELSE /\ ops < MaxOps
                /\ last' = [NoCommand EXCEPT !.cmd = "C", !.status = "declined"]
                /\ ops' = ops + 1
                /\ UNCHANGED <<review, pc, outcome>>
    /\ UNCHANGED <<inputVars, libraryVars, classifyVars, plan, built, approved_plan,
                   executeVars>>

\* Any other menu input: "Unknown option", and the loop goes on.
ReviewUnknown ==
    /\ pc = "review"
    /\ ops < MaxOps
    /\ ops' = ops + 1
    /\ \E choice \in Choices :
        /\ choice \notin {"A", "R", "S", "M", "C"}
        /\ last' = [NoCommand EXCEPT !.cmd = "?", !.status = "unknown"]
    /\ UNCHANGED <<inputVars, libraryVars, classifyVars, plan, built, pc, review,
                   approved_plan, executeVars, outcome>>

\* What a dialog did, applied to main's state.  An exception a dialog does
\* not catch (the AttributeError of rename_folder) leaves interactive_review
\* and main: the run ends with a traceback.
ApplyDialog(cmd, o) ==
    /\ ops < MaxOps
    /\ plan' = o.plan
    /\ results' = o.heap
    /\ last' = [cmd |-> cmd, status |-> o.status, ref |-> o.ref,
                src |-> o.src, dst |-> o.dst]
    /\ ops' = ops + 1
    /\ IF o.status = "AttributeError"
       THEN /\ review' = "Raised"
            /\ pc' = "done"
            /\ outcome' = "raised"
       ELSE UNCHANGED <<review, pc, outcome>>
    /\ UNCHANGED <<inputVars, libraryVars, all_folders, built, approved_plan, executeVars>>

\* A prompt the dialog did not reach reads nothing.
NotAsked == "<not asked>"
NoDest == [text |-> NotAsked, int |-> [ok |-> FALSE, value |-> 0]]

\* Whether the number n typed at a prompt selects one of count listed items,
\* so that the dialog goes on to its next prompt.
Selects(n, count) == n.ok /\ 0 <= n.value - 1 /\ n.value - 1 < count

\* [R]: rename_folder_interactive.
ReviewRename ==
    /\ pc = "review"
    /\ ops < MaxOps
    /\ \E choice \in Choices, n \in Numbers :
        /\ choice = "R"
        /\ \E name \in IF Selects(n, Len(plan.folder_assignments))
                        THEN Names ELSE {NotAsked} :
           \E o \in {rename_folder_interactive(plan, results, n, name)} :
            ApplyDialog("R", o)

\* [S]: skip_file_interactive.
ReviewSkip ==
    /\ pc = "review"
    /\ ops < MaxOps
    /\ \E choice \in Choices, n \in Numbers :
        /\ choice = "S"
        /\ \E o \in {skip_file_interactive(plan, results, n)} :
            ApplyDialog("S", o)

\* [M]: move_file_interactive.
ReviewMove ==
    /\ pc = "review"
    /\ ops < MaxOps
    /\ \E choice \in Choices, n \in Numbers :
        /\ choice = "M"
        /\ \E dest \in IF Selects(n, Len(AllFiles(plan.folder_assignments)))
                        THEN Dests ELSE {NoDest} :
           \E name \in IF dest.text = "N" THEN Names ELSE {NotAsked} :
           \E o \in {move_file_interactive(plan, results, n, dest, name)} :
            ApplyDialog("M", o)

\* -------------------------------------------------------------- execution

\* The names of the dict main builds from get_root_folders.
NamesOf(list) == {list[k] : k \in 1..Len(list)}

\* A faulty loop over plan.new_folders that stops after its first name.
CreateCallsFirstOnly(new_folders, failed) ==
    IF new_folders = {} THEN {}
    ELSE LET f == CHOOSE g \in new_folders : TRUE
         IN {[name |-> f, ok |-> f \notin failed]}

\* The Drive calls of the loop over plan.new_folders: one create call for
\* each name of the set (the loop visits a set, in no order the program
\* fixes, so the calls are kept as a set); the call of a name in failed
\* raises, and the error is printed.
CreateCalls(new_folders, failed) ==
    {[name |-> f, ok |-> f \notin failed] : f \in new_folders}

\* The (result, folder) pairs the move loop reaches, in its order: the
\* buckets in dict order, a bucket whose folder has no id skipped whole.
RECURSIVE MoveTargets(_, _)
MoveTargets(fa, ids) ==
    IF fa = <<>> THEN <<>>
    ELSE (IF fa[1].folder \in ids
          THEN [j \in 1..Len(fa[1].files) |-> <<fa[1].files[j], fa[1].folder>>]
          ELSE <<>>)
         \o MoveTargets(Tail(fa), ids)

\* The Drive calls of the move loop: the k-th move raises (in files().get or
\* in files().update) when k is in failed, and the error is counted.
MoveCalls(targets, heap, failed) ==
    [k \in 1..Len(targets) |->
        [file_id |-> heap[targets[k][1]].file_id, name |-> targets[k][2],
         ok |-> k \notin failed]]

\* execute_plan up to its `if plan.new_folders:`: copy the folder ids.  The
\* create loop, the move loop and the tally are all inside that if, so with
\* no new folder execute_plan returns here and main ends.
ExecuteStart ==
    /\ pc = "execute"
    /\ folder_ids' = NamesOf(folder_names)
    /\ IF approved_plan.plan.new_folders # {}
       THEN /\ pc' = "create"
            /\ outcome' = outcome
       ELSE /\ pc' = "done"
            /\ outcome' = "complete"
    /\ UNCHANGED <<inputVars, libraryVars, classifyVars, plan, built, reviewVars,
                   success_count, error_count, store_log>>

\* The loop over plan.new_folders: each name is visited once, in the set's
\* order; a create call that succeeds gives the name an id, one that raises
\* is reported and the loop goes on.
ExecuteCreate ==
    /\ pc = "create"
    /\ \E failed \in SUBSET approved_plan.plan.new_folders :
        /\ store_log' = [store_log EXCEPT
               !.creates = CreateCalls(approved_plan.plan.new_folders, failed)]
        /\ folder_ids' = folder_ids \cup (approved_plan.plan.new_folders \ failed)
    /\ pc' = "move"
    /\ UNCHANGED <<inputVars, libraryVars, classifyVars, plan, built, reviewVars,
                   success_count, error_count, outcome>>

\* The loop over the buckets, and the tally: every file of a bucket whose
\* folder has an id is moved; a move that raises is counted as an error and
\* the loop goes on.  Then execute_plan and main return.
ExecuteMove ==
    /\ pc = "move"
    /\ LET targets == MoveTargets(approved_plan.plan.folder_assignments,
                                  folder_ids)
       IN \E failed \in SUBSET (1..Len(targets)) :
            /\ store_log' = [store_log EXCEPT
                   !.moves = MoveCalls(targets, results, failed)]
            /\ success_count' = Len(targets) - Cardinality(failed)
            /\ error_count' = Cardinality(failed)
    /\ pc' = "done"
    /\ outcome' = "complete"
    /\ UNCHANGED <<inputVars, libraryVars, classifyVars, plan, built, reviewVars, folder_ids>>

Next ==
    \/ ClassifyStep
    \/ ClassifyReturn
    \/ BuildStep
    \/ BuildReturn
    \/ ReviewApprove
    \/ ReviewCancel
    \/ ReviewUnknown
    \/ ReviewRename
    \/ ReviewSkip
    \/ ReviewMove
    \/ ExecuteStart
    \/ ExecuteCreate
    \/ ExecuteMove

Spec == Init /\ [][Next]_vars

\* ------------------------------------------- the plan driven by a caller

\* OrganizationPlan and interactive_review are also callable on their own:
\* a caller makes a plan, calls its methods with results it constructs and
\* with any folder names and file ids, and may then hand the plan to
\* interactive_review.  Here pc is "api" while the caller calls the methods,
\* results is the heap of the result objects the caller has constructed, and
\* last records the last call: its name (cmd), what it returned (status) and
\* its arguments (ref, src, dst).

\* The most calls the caller makes, the call of interactive_review included.
MaxCalls == 3

\* The most commands of the review that the caller's plan is followed through.
MaxReviewed == 1

\* The file ids, folder names and rename targets the caller uses.
ApiIds == {"1", "2"}
ApiFolders == {"A", "B"}
ApiNewNames == {"B", "C"}

\* A ClassificationResult the caller constructs.
ApiResult(file_id, folder, is_new) ==
    [file_id |-> file_id, file_name |-> "doc" \o file_id,
     suggested_folder |-> folder, is_new_folder |-> is_new,
     confidence |-> "high", reasoning |-> ""]

\* plan = OrganizationPlan()
PlanInit ==
    /\ use_mock = TRUE
    /\ dry_run = FALSE
    /\ loose_files = <<>>
    /\ folder_names = <<>>
    /\ all_folders = <<>>
    /\ results = <<>>
    /\ plan = EmptyPlan
    /\ built = 0
    /\ pc = "api"
    /\ review = "NotStarted"
    /\ approved_plan = NoPlan
    /\ last = NoCommand
    /\ ops = 0
    /\ folder_ids = {}
    /\ success_count = 0
    /\ error_count = 0
    /\ store_log = [creates |-> {}, moves |-> <<>>]
    /\ outcome = ""
    /\ keyword_rules = <<>>
    /\ batch = NoBatch

apiUnchanged == <<inputVars, libraryVars, all_folders, built, pc, review, approved_plan,
                  executeVars, outcome>>

\* plan.add_result(ClassificationResult(...))
CallAddResult ==
    /\ pc = "api"
    /\ ops < MaxCalls
    /\ \E file_id \in ApiIds, folder \in ApiFolders, is_new \in BOOLEAN :
        LET heap == Append(results, ApiResult(file_id, folder, is_new))
        IN /\ results' = heap
           /\ plan' = add_result(plan, heap, Len(heap))
           /\ last' = [cmd |-> "add_result", status |-> "None",
                       ref |-> Len(heap), src |-> "", dst |-> folder]
    /\ ops' = ops + 1
    /\ UNCHANGED apiUnchanged

\* plan.rename_folder(old_name, new_name); an AttributeError is the
\* caller's to catch, the plan stays as the call left it.
CallRenameFolder ==
    /\ pc = "api"
    /\ ops < MaxCalls
    /\ \E old_name \in ApiFolders, new_name \in ApiNewNames :
       \E r \in {rename_folder(plan, results, old_name, new_name)} :
        /\ plan' = r.plan
        /\ results' = r.heap
        /\ last' = [cmd |-> "rename_folder", status |-> r.ret, ref |-> 0,
                    src |-> old_name, dst |-> new_name]
    /\ ops' = ops + 1
    /\ UNCHANGED apiUnchanged

\* plan.remove_file(file_id)
CallRemoveFile ==
    /\ pc = "api"
    /\ ops < MaxCalls
    /\ \E file_id \in ApiIds :
       \E r \in {remove_file(plan, results, file_id)} :
        /\ plan' = r.plan
        /\ last' = [cmd |-> "remove_file",
                    status |-> IF r.ret THEN "True" ELSE "False",
                    ref |-> 0, src |-> file_id, dst |-> ""]
    /\ ops' = ops + 1
    /\ UNCHANGED <<apiUnchanged, results>>

\* interactive_review(plan): the loop starts.
CallInteractiveReview ==
    /\ pc = "api"
    /\ ops < MaxCalls
    /\ pc' = "review"
    /\ review' = "Reviewing"
    /\ ops' = 0
    /\ last' = NoCommand
    /\ UNCHANGED <<inputVars, libraryVars, classifyVars, plan, built, approved_plan,
                   executeVars, outcome>>

PlanNext ==
    \/ CallAddResult
    \/ CallRenameFolder
    \/ CallRemoveFile
    \/ CallInteractiveReview
    \/ (ops < MaxReviewed /\ ReviewUnknown)
    \/ (ops < MaxReviewed /\ ReviewRename)
    \/ (ops < MaxReviewed /\ ReviewSkip)
    \/ (ops < MaxReviewed /\ ReviewMove)

PlanSpec == PlanInit /\ [][PlanNext]_vars

\* ------------------------------------ the rule classifiers called directly

\* Both MockClassifier classes can be called on their own.  Here pc is
\* "rules", folder_names is the known-folder list the caller passes to every
\* call, results collects the results returned, and last records the last
\* call: the classifier (cmd), how the call ended (status: "returned" or the
\* exception raised), the place of its result in results (ref), the file
\* name (src) and, for mock_classifier.py, the value its loop over the
\* rules left in suggested_folder (dst, "" for None).  keyword_rules is the
\* rule table of mock_classifier.py, which add_rule changes.

\* The most calls the caller makes, and the most rules it adds.
MaxClassified == 2
MaxRulesAdded == 1

\* The file names and the known-folder lists the caller passes.
RuleFileNames ==
    {"Newton_Notes.pdf", "Resume_2024.docx", "random_file_xyz.bin",
     "Untitled document", "my_cv.pdf"}
RuleKnownLists ==
    {<<>>, <<"physics files", "PHYSICS FILES">>, <<"miscellaneous">>,
     <<"drafts", "To Sort">>}

RuleInit ==
    /\ use_mock = TRUE
    /\ dry_run = FALSE
    /\ loose_files = <<>>
    /\ folder_names \in RuleKnownLists
    /\ all_folders = <<>>
    /\ results = <<>>
    /\ plan = EmptyPlan
    /\ built = 0
    /\ pc = "rules"
    /\ review = "NotStarted"
    /\ approved_plan = NoPlan
    /\ last = NoCommand
    /\ ops = 0
    /\ folder_ids = {}
    /\ success_count = 0
    /\ error_count = 0
    /\ store_log = [creates |-> {}, moves |-> <<>>]
    /\ outcome = ""
    /\ keyword_rules = REGEX_KEYWORD_RULES
    /\ batch = NoBatch

\* classifier.MockClassifier().classify_file(name, id, folder_names)
CallMockClassifyFile ==
    /\ pc = "rules"
    /\ ops < MaxClassified
    /\ \E file_name \in RuleFileNames, file_id \in ApiIds :
        /\ results' = Append(results,
                             MockClassifyFile(file_name, file_id, folder_names))
        /\ last' = [cmd |-> "classifier", status |-> "returned",
                    ref |-> Len(results) + 1, src |-> file_name, dst |-> ""]
    /\ ops' = ops + 1
    /\ UNCHANGED <<inputVars, libraryVars, all_folders, plan, built, pc, review,
                   approved_plan, executeVars, outcome>>

\* mock_classifier.MockClassifier().classify_file(name, id, folder_names)
CallRegexClassifyFile ==
    /\ pc = "rules"
    /\ ops < MaxClassified
    /\ \E file_name \in RuleFileNames, file_id \in ApiIds :
       \E r \in {RegexClassifyFile(keyword_rules, file_name, file_id,
                                   folder_names)},
          picked \in {RegexSuggestedFolder(keyword_rules, Lower(file_name))} :
        IF r.raised = "None"
        THEN /\ results' = Append(results, r.value)
             /\ last' = [cmd |-> "mock_classifier", status |-> "returned",
                         ref |-> Len(results) + 1, src |-> file_name,
                         dst |-> picked]
        ELSE /\ results' = results
             /\ last' = [cmd |-> "mock_classifier", status |-> r.raised,
                         ref |-> 0, src |-> file_name, dst |-> picked]
    /\ ops' = ops + 1
    /\ UNCHANGED <<inputVars, libraryVars, all_folders, plan, built, pc,
                   review, approved_plan, executeVars, outcome>>

\* The rules and the priorities the caller passes to add_rule: one rule
\* matches a name that a rule of the table matches too, one a name that no
\* rule of the table matches.
AddedRules ==
    { [pattern |-> "newton", folder |-> "Science", alts |-> <<Lit("newton")>>],
      [pattern |-> "xyz", folder |-> "Binaries", alts |-> <<Lit("xyz")>>] }
Priorities == {-1, 0, 1, 100}

\* mock_classifier.MockClassifier().add_rule(pattern, folder, priority):
\* last records the rule (src, dst) and the priority (ref).
CallAddRule ==
    /\ pc = "rules"
    /\ ops < MaxClassified
    /\ Len(keyword_rules) < Len(REGEX_KEYWORD_RULES) + MaxRulesAdded
    /\ \E rule \in AddedRules, priority \in Priorities :
        /\ keyword_rules' = add_rule(keyword_rules, rule, priority)
        /\ last' = [cmd |-> "add_rule", status |-> "None", ref |-> priority,
                    src |-> rule.pattern, dst |-> rule.folder]
    /\ ops' = ops + 1
    /\ UNCHANGED <<inputVars, batch, classifyVars, plan, built, pc, review,
                   approved_plan, executeVars, outcome>>

RuleNext ==
    \/ CallMockClassifyFile
    \/ CallRegexClassifyFile
    \/ CallAddRule

RuleSpec == RuleInit /\ [][RuleNext]_vars

\* --------------------------------------------- classify_multiple, called
\* FileClassifier.classify_multiple can be called by a caller other than
\* main, with a progress callback.  Here pc is "batch" while the call runs
\* and "returned" after it, folder_names is the value the caller's list had
\* when the call was made, and batch is the frame of the call: the list
\* objects (lists), the caller's list and the working list as references
\* into them (existing_folders, all_folders), whether a callback was
\* supplied (progress_callback) and the calls made on it (calls).

\* A faulty copy that hands back the list object itself.
ListAlias(lists, ref) == [lists |-> lists, ref |-> ref]

\* list(existing_folders): a new list object with the items of the old.
ListCopy(lists, ref) ==
    [lists |-> Append(lists, lists[ref]), ref |-> Len(lists) + 1]

\* A faulty callback call that passes the zero-based index.
ProgressArgsZeroBased(i, total, result) ==
    [completed |-> i, total |-> total, result |-> result]

\* The arguments of progress_callback(i + 1, total, result).
ProgressArgs(i, total, result) ==
    [completed |-> i + 1, total |-> total, result |-> result]

\* The caller has made the call, and classify_multiple has run up to its
\* loop.
BatchInit ==
    /\ use_mock \in BOOLEAN
    /\ dry_run = FALSE
    /\ loose_files \in Batches
    /\ folder_names \in KnownFolderLists
    /\ all_folders = <<>>
    /\ results = <<>>
    /\ plan = EmptyPlan
    /\ built = 0
    /\ pc = "batch"
    /\ review = "NotStarted"
    /\ approved_plan = NoPlan
    /\ last = NoCommand
    /\ ops = 0
    /\ folder_ids = {}
    /\ success_count = 0
    /\ error_count = 0
    /\ store_log = [creates |-> {}, moves |-> <<>>]
    /\ outcome = ""
    /\ keyword_rules = <<>>
    /\ batch \in {[lists |-> ListCopy(<<folder_names>>, 1).lists,
                    existing_folders |-> 1,
                    all_folders |-> ListCopy(<<folder_names>>, 1).ref,
                    progress_callback |-> supplied,
                    calls |-> <<>>] : supplied \in BOOLEAN}

\* One iteration of the loop of classify_multiple: classify the next file
\* against the working list, grow the list, append the result, call the
\* callback if there is one.
BatchClassifyStep ==
    /\ pc = "batch"
    /\ Len(results) < Len(loose_files)
    /\ \E response \in AIResponses :
        LET i == Len(results)
            file == loose_files[i + 1]
            result == ClassifyFile(use_mock, file.name, file.id,
                                   batch.lists[batch.all_folders], response)
        IN /\ results' = AppendResult(results, result)
           /\ batch' = [batch EXCEPT
                   !.lists[batch.all_folders] = GrowFolders(@, result),
                   !.calls = IF batch.progress_callback
                             THEN Append(@, ProgressArgs(i, Len(loose_files),
                                                         result))
                             ELSE @]
    /\ UNCHANGED <<inputVars, keyword_rules, all_folders, plan, built, pc,
                   reviewVars, executeVars, outcome>>

\* classify_multiple returns its results.
BatchReturn ==
    /\ pc = "batch"
    /\ Len(results) = Len(loose_files)
    /\ pc' = "returned"
    /\ UNCHANGED <<inputVars, libraryVars, classifyVars, plan, built,
                   reviewVars, executeVars, outcome>>

\* The results classify_multiple returns in mock mode for the batch files,
\* started with the working list all_folders: its loop, run to the end.
RECURSIVE MockClassifyMultiple(_, _)
MockClassifyMultiple(files, folders) ==
    IF files = <<>> THEN <<>>
    ELSE LET result == MockClassifyFile(files[1].name, files[1].id, folders)
         IN <<result>>
            \o MockClassifyMultiple(Tail(files), GrowFolders(folders, result))

BatchNext ==
    \/ BatchClassifyStep
    \/ BatchReturn

BatchSpec == BatchInit /\ [][BatchNext]_vars

\* ------------------------------------------------------------------ claims

\* The keys of the plan's dict, as a set.
KeySet(p) == {p.folder_assignments[k].folder :
                 k \in 1..Len(p.folder_assignments)}

\* The result references filed under folder in plan p (<<>> if not a key).
Bucket(p, folder) ==
    IF KeyIndex(p.folder_assignments, folder) = 0 THEN <<>>
    ELSE p.folder_assignments[KeyIndex(p.folder_assignments, folder)].files

\* The statuses of a review command that did nothing.
NoOpStatuses == {"invalid", "cancelled", "empty", "declined", "unknown"}

\* C1: at every point of main, while the plan is built by add_result and
\* while rename, skip and move change it, the bucket keys are exactly
\* new_folders \cup existing_folders and no bucket is empty.
C1_KeysAreTheFolderSets ==
    /\ KeySet(plan) = plan.new_folders \cup plan.existing_folders
    /\ \A k \in 1..Len(plan.folder_assignments) :
          plan.folder_assignments[k].files # <<>>

\* C2: no folder name is in both new_folders and existing_folders, while
\* the plan is built from the batch's results and during the review.
C2_FolderSetsDisjoint ==
    plan.new_folders \cap plan.existing_folders = {}

\* C3: in mock mode no result of the batch names a reserved generic label
\* as its suggested folder.
C3_NoGenericLabel ==
    (use_mock /\ pc \in {"classify", "build"}) =>
        \A k \in 1..Len(results) :
            results[k].suggested_folder \notin {"Miscellaneous", "Uncategorized"}

\* C4: in the results of one classify_multiple call, a result that follows
\* a result marked new and names the same folder is not marked new.
C4_LaterFileSeesFolderKnown ==
    pc \in {"classify", "build"} =>
        \A j, k \in 1..Len(results) :
            (j < k /\ results[j].is_new_folder
               /\ results[k].suggested_folder = results[j].suggested_folder)
            => ~results[k].is_new_folder

\* C5: classify_multiple returns one result per file of the batch, the k-th
\* carrying the id and the name of the k-th file; while it runs, its results
\* are those of the files classified so far.
C5_OneResultPerFileInOrder ==
    /\ pc = "classify" => Len(results) <= Len(loose_files)
    /\ pc \notin {"classify", "done"} => Len(results) = Len(loose_files)
    /\ \A k \in 1..Len(results) :
          /\ results[k].file_id = loose_files[k].id
          /\ results[k].file_name = loose_files[k].name

\* C5 witness: classify_multiple has returned the results of a batch of two
\* files.
C5_Witness ==
    /\ pc = "build"
    /\ Len(results) = 2
    /\ results[1].file_id # results[2].file_id

\* C6: when execution of an approved plan has ended, the move calls it made
\* are one per result of the plan, each with the result's file id and its
\* bucket's folder, in plan order.
C6_EveryFileGetsMoveAttempt ==
    (pc = "done" /\ outcome = "complete") =>
        LET all_files == AllFiles(approved_plan.plan.folder_assignments)
        IN /\ Len(store_log.moves) = Len(all_files)
           /\ \A k \in 1..Len(all_files) :
                 /\ store_log.moves[k].file_id = results[all_files[k][1]].file_id
                 /\ store_log.moves[k].name = all_files[k][2]

\* C7: the review becomes Approved only from Reviewing, by an [A] answered
\* "yes", and then returns the plan as it stands; it becomes Cancelled only
\* from Reviewing, by a [C] answered "yes", and then returns no plan; an
\* [A] or [C] that is declined leaves it Reviewing with the plan untouched.
C7_ReviewEndsOnlyByConfirmedCommand ==
    [][/\ (review # "Approved" /\ review' = "Approved") =>
            /\ review = "Reviewing"
            /\ last'.cmd = "A" /\ last'.status = "confirmed"
            /\ approved_plan' = [some |-> TRUE, plan |-> plan]
            /\ plan' = plan /\ results' = results
       /\ (review # "Cancelled" /\ review' = "Cancelled") =>
            /\ review = "Reviewing"
            /\ last'.cmd = "C" /\ last'.status = "confirmed"
            /\ approved_plan' = NoPlan
       /\ (ops' # ops /\ last'.status = "declined") =>
            /\ last'.cmd \in {"A", "C"}
            /\ review' = "Reviewing" /\ pc' = "review"
            /\ approved_plan' = NoPlan
            /\ plan' = plan /\ results' = results
       /\ approved_plan'.some => review' = "Approved"]_vars

\* C7 witness: the review was approved after a command had changed the plan,
\* and the plan returned holds that change (a folder named at a prompt).
C7_Witness ==
    /\ review = "Approved"
    /\ ops > 0
    /\ approved_plan.some
    /\ "Archive" \in KeySet(approved_plan.plan)
    /\ "Archive" \notin NamesOf(folder_names)

\* C8: the review is never left otherwise than Approved or Cancelled.
C8_ReviewNeverEndsOtherwise ==
    review \in {"NotStarted", "Reviewing", "Approved", "Cancelled"}

\* C9: a Drive call that creates a folder or moves a file is made only once
\* the review is Approved; a run that ends cancelled or as a dry run has
\* made none.
C9_NoStoreCallBeforeApproval ==
    /\ (store_log.creates # {} \/ store_log.moves # <<>>
          \/ success_count # 0 \/ error_count # 0) => review = "Approved"
    /\ outcome \in {"cancelled", "dry_run"} =>
          store_log = [creates |-> {}, moves |-> <<>>]

\* C9 witness: a review of a plan that has a folder to create and a file to
\* move ended cancelled.
C9_Witness ==
    /\ pc = "done"
    /\ outcome = "cancelled"
    /\ review = "Cancelled"
    /\ plan.new_folders # {}
    /\ plan.folder_assignments # <<>>

\* C10: a rename of a bucket key to a name that is not a key succeeds, and
\* then the new name's bucket is the old name's bucket, the old name is no
\* key, and every result of the bucket names the new folder.
C10_RenameMovesBucket ==
    [][(/\ ops' # ops
        /\ last'.cmd = "R"
        /\ last'.status \notin NoOpStatuses
        /\ last'.dst \notin KeySet(plan)) =>
            /\ last'.status = "True"
            /\ review' = "Reviewing"
            /\ Bucket(plan', last'.dst) = Bucket(plan, last'.src)
            /\ last'.src \notin KeySet(plan')
            /\ \A k \in 1..Len(Bucket(plan', last'.dst)) :
                  results'[Bucket(plan', last'.dst)[k]].suggested_folder
                      = last'.dst]_vars

\* The position in all_files (the plan's results in bucket order) of the
\* first result with file_id, 0 if there is none.
FirstWithId(all_files, heap, file_id) ==
    LET hits == {k \in 1..Len(all_files) : heap[all_files[k][1]].file_id = file_id}
    IN IF hits = {} THEN 0 ELSE CHOOSE k \in hits : \A j \in hits : k <= j

\* C11: a rename_folder call that returns True for two different names
\* moves the old name's membership to the new name: out of new_folders into
\* new_folders, out of existing_folders into existing_folders.
C11_RenameKeepsKind ==
    [][(/\ ops' = ops + 1
        /\ last'.cmd \in {"rename_folder", "R"}
        /\ last'.status = "True"
        /\ last'.src # last'.dst) =>
            /\ last'.src \in plan.new_folders =>
                  /\ last'.dst \in plan'.new_folders
                  /\ last'.src \notin plan'.new_folders
            /\ last'.src \in plan.existing_folders =>
                  /\ last'.dst \in plan'.existing_folders
                  /\ last'.src \notin plan'.existing_folders]_vars

\* C12: a remove_file call on an id the plan holds returns True and takes
\* out the first result with that id, every other result staying where it
\* was; a bucket it empties is deleted and its name leaves new_folders and
\* existing_folders.
C12_RemoveFileDropsEmptiedFolder ==
    [][(/\ ops' = ops + 1
        /\ last'.cmd = "remove_file"
        /\ FirstWithId(AllFiles(plan.folder_assignments), results,
                       last'.src) # 0) =>
            LET all_files == AllFiles(plan.folder_assignments)
                k == FirstWithId(all_files, results, last'.src)
                folder == all_files[k][2]
            IN /\ last'.status = "True"
               /\ AllFiles(plan'.folder_assignments) = RemoveAt(all_files, k)
               /\ Len(Bucket(plan, folder)) = 1 =>
                     /\ folder \notin KeySet(plan')
                     /\ folder \notin plan'.new_folders
                     /\ folder \notin plan'.existing_folders]_vars

\* No two result objects the caller has constructed have the same file id.
DistinctIds(heap) ==
    \A j, k \in 1..Len(heap) : heap[j].file_id = heap[k].file_id => j = k

\* C13: with distinct file ids, a remove_file call that directly follows a
\* remove_file call with the same id returns False and leaves the bucket
\* map, new_folders and existing_folders as the first call left them.
C13_SecondRemoveIsNoOp ==
    [][(/\ ops' = ops + 1
        /\ last.cmd = "remove_file"
        /\ last'.cmd = "remove_file"
        /\ last'.src = last.src
        /\ DistinctIds(results)) =>
            /\ last'.status = "False"
            /\ plan' = plan
            /\ results' = results]_vars

\* C13 witness: one result was added and removed (the first remove_file
\* found it), and a second remove_file with its id has returned False.
C13_Witness ==
    /\ pc = "api"
    /\ ops = 3
    /\ Len(results) = 1
    /\ plan.folder_assignments = <<>>
    /\ last.cmd = "remove_file"
    /\ last.status = "False"
    /\ last.src = results[1].file_id

\* C14: a move of the only result of bucket A to another bucket B of the
\* plan deletes A, leaves A in neither new_folders nor existing_folders,
\* and appends the result to B, whose earlier results stay in place; the
\* result then names B.
C14_MoveOfLastFileDropsFolder ==
    [][(/\ ops' = ops + 1
        /\ last'.cmd = "M"
        /\ last'.status = "moved"
        /\ last'.src # last'.dst
        /\ last'.dst \in KeySet(plan)
        /\ Bucket(plan, last'.src) = <<last'.ref>>) =>
            /\ last'.src \notin KeySet(plan')
            /\ last'.src \notin plan'.new_folders
            /\ last'.src \notin plan'.existing_folders
            /\ Bucket(plan', last'.dst)
                  = Append(Bucket(plan, last'.dst), last'.ref)
            /\ results'[last'.ref].suggested_folder = last'.dst]_vars

\* C15: the result a move has re-filed is marked new exactly when its
\* destination was no bucket key once the result had been taken out of its
\* old bucket.
C15_MovedFlagFollowsKeys ==
    [][(/\ ops' = ops + 1
        /\ last'.cmd = "M"
        /\ last'.status = "moved") =>
            LET removed == remove_file(plan, results,
                                       results[last'.ref].file_id).plan
            IN results'[last'.ref].is_new_folder
                   = (last'.dst \notin KeySet(removed))]_vars

\* C16: a request that is rejected or does nothing leaves the plan and its
\* results as they were: rename_folder with an old name that is no key and
\* remove_file with an id the plan does not hold (both return False), a
\* dialog ended by a cancelled, out-of-range or non-numeric selection or by
\* an empty name, and an unknown menu option (the review goes on).
C16_RejectedRequestChangesNothing ==
    [][/\ (/\ ops' = ops + 1
           /\ last'.cmd = "rename_folder"
           /\ last'.src \notin KeySet(plan)) =>
               /\ last'.status = "False"
               /\ plan' = plan /\ results' = results
       /\ (/\ ops' = ops + 1
           /\ last'.cmd = "remove_file"
           /\ FirstWithId(AllFiles(plan.folder_assignments), results,
                          last'.src) = 0) =>
               /\ last'.status = "False"
               /\ plan' = plan /\ results' = results
       /\ (/\ ops' = ops + 1
           /\ last'.cmd \in {"R", "S", "M", "?"}
           /\ last'.status \in NoOpStatuses) =>
               /\ plan' = plan /\ results' = results
               /\ review' = "Reviewing" /\ pc' = "review"]_vars

\* C16 witness: the move dialog, run on a plan that holds a file, has ended
\* on an invalid selection.
C16_Witness ==
    /\ pc = "review"
    /\ plan.folder_assignments # <<>>
    /\ last.cmd = "M"
    /\ last.status = "invalid"

\* C17: when execution of the approved plan has ended, every file of the
\* plan has been counted, as a success or as an error.
C17_EveryFileIsCounted ==
    (pc = "done" /\ outcome = "complete") =>
        success_count + error_count
            = get_summary(approved_plan.plan).total_files

\* C18: in AI mode every file has its result although the model call or
\* the parse failed for some, and the result of a failed file has
\* confidence "low", reasoning that cites the failure, and a folder name
\* that is no reserved generic label.
C18_FailedFileGetsSpecificLabel ==
    (~use_mock /\ pc \in {"classify", "build"}) =>
        /\ pc = "build" => Len(results) = Len(loose_files)
        /\ \A k \in 1..Len(results) :
              results[k].reasoning = "Classification failed" =>
                  /\ results[k].confidence = "low"
                  /\ results[k].suggested_folder
                        \notin {"Miscellaneous", "Uncategorized"}

\* C19: every result a rule classifier returns is marked new exactly when
\* its suggested folder equals no folder of the known-folder list of the
\* call, letter case ignored.
C19_NewIffNoCaseInsensitiveMatch ==
    pc = "rules" =>
        \A k \in 1..Len(results) :
            results[k].is_new_folder
                = (FirstExisting(results[k].suggested_folder, folder_names) = 0)

\* C20: a classify_file call on a name that a rule matches returns a result
\* of confidence "high": the first known folder equal to the rule's label,
\* letter case ignored, not marked new, or else the label itself marked new.
C20_RuleMatchGivesHighConfidence ==
    [][(/\ ops' = ops + 1
        /\ last'.cmd \in {"classifier", "mock_classifier"}
        /\ IF last'.cmd = "classifier"
           THEN FirstMatch(Lower(last'.src)) # 0
           ELSE RegexFirstMatch(keyword_rules', Lower(last'.src)) # 0) =>
            /\ last'.status = "returned"
            /\ LET label ==
                       IF last'.cmd = "classifier"
                       THEN KEYWORD_RULES[FirstMatch(Lower(last'.src))][2]
                       ELSE keyword_rules'[
                                RegexFirstMatch(keyword_rules',
                                                Lower(last'.src))].folder
                   e == FirstExisting(label, folder_names)
                   r == results'[last'.ref]
               IN /\ r.confidence = "high"
                  /\ r.suggested_folder
                        = IF e # 0 THEN folder_names[e] ELSE label
                  /\ r.is_new_folder = (e = 0)]_vars

C22_NoMatchGivesDraftsOrToSort ==
    (/\ pc = "rules"
     /\ last.cmd \in {"classifier", "mock_classifier"}
     /\ IF last.cmd = "classifier"
        THEN \A k \in 1..Len(KEYWORD_RULES) :
                ~Contains(KEYWORD_RULES[k][1], Lower(last.src))
        ELSE last.dst = "") =>
        /\ last.status = "returned"
        /\ LET r == results[last.ref]
           IN /\ r.suggested_folder
                    = IF Contains("untitled", Lower(last.src))
                      THEN "Drafts" ELSE "To Sort"
              /\ r.confidence = "low"
              /\ folder_names = <<>> => r.is_new_folder

\* C23: in every state of a plan driven through its operations, the summary
\* agrees with the buckets: total_files is the number of filed results,
\* total_folders is the number of buckets, and the new-folder count and the
\* existing-folder count add up to total_folders.
C23_SummaryAgreesWithBuckets ==
    pc \in {"api", "review"} =>
        LET s == get_summary(plan)
            fa == plan.folder_assignments
            filed == UNION {{<<b, j>> : j \in 1..Len(fa[b].files)} :
                            b \in 1..Len(fa)}
        IN /\ s.total_files = Cardinality(filed)
           /\ s.total_folders = Cardinality(KeySet(plan))
           /\ s.new_folders + s.existing_folders = s.total_folders

\* C24: add_rule(pattern, folder, priority) puts the rule at index priority
\* of the table (at the end for the default -1), leaves the other rules in
\* their order and the earlier results as they are; and a classify_file
\* call made while an added rule is first in the table and matches the name
\* returns that rule's folder.
C24_AddedRuleDecidesLaterCalls ==
    [][/\ (ops' = ops + 1 /\ last'.cmd = "add_rule") =>
            LET at == IF last'.ref = -1 THEN Len(keyword_rules)
                      ELSE last'.ref
            IN /\ at + 1 \in DOMAIN keyword_rules'
               /\ keyword_rules'[at + 1].pattern = last'.src
               /\ keyword_rules'[at + 1].folder = last'.dst
               /\ RemoveAt(keyword_rules', at + 1) = keyword_rules
               /\ \E k \in 1..Len(get_rules_for_folder(keyword_rules',
                                                       last'.dst)) :
                      get_rules_for_folder(keyword_rules', last'.dst)[k]
                          = last'.src
               /\ results' = results
       /\ (/\ ops' = ops + 1
           /\ last'.cmd = "mock_classifier"
           /\ keyword_rules[1] \in AddedRules
           /\ Search(keyword_rules[1], Chars(Lower(last'.src)))) =>
               /\ last'.status = "returned"
               /\ Lower(results'[last'.ref].suggested_folder)
                     = Lower(keyword_rules[1].folder)]_vars

\* C25: while classify_multiple runs and after it has returned, the list
\* the caller passed holds the items it held when the call was made, in the
\* same order.
C25_CallerListUnchanged ==
    pc \in {"batch", "returned"} =>
        batch.lists[batch.existing_folders] = folder_names

\* C25 witness: the call has returned after a new folder name was added to
\* the working list.
C25_Witness ==
    /\ pc = "returned"
    /\ Len(batch.lists[batch.all_folders]) > Len(folder_names)

\* C26: with a callback supplied, the calls made on it are in step with the
\* results: after k files have been classified there have been k calls,
\* the j-th with (j, total, the result of the j-th file).
C26_OneProgressCallPerFile ==
    (pc \in {"batch", "returned"} /\ batch.progress_callback) =>
        /\ Len(batch.calls) = Len(results)
        /\ pc = "returned" => Len(batch.calls) = Len(loose_files)
        /\ \A j \in 1..Len(batch.calls) :
              /\ batch.calls[j].completed = j
              /\ batch.calls[j].total = Len(loose_files)
              /\ batch.calls[j].result = results[j]
              /\ batch.calls[j].result.file_id = loose_files[j].id

\* C26 witness: the call has returned for a batch of two files with a
\* callback supplied.
C26_Witness ==
    /\ pc = "returned"
    /\ batch.progress_callback
    /\ Len(loose_files) = 2
    /\ Len(batch.calls) = 2

\* The result references filed in plan p, under any key.
Filed(p) ==
    UNION {{p.folder_assignments[b].files[j] :
               j \in 1..Len(p.folder_assignments[b].files)} :
           b \in 1..Len(p.folder_assignments)}

\* C27: a rename_folder call whose old and new names are two different
\* keys of the plan leaves under the new name exactly the results that were
\* under the old name, removes the old key and leaves every other bucket
\* as it was, so that a result that was filed under the new name, and under
\* no other, is in no bucket.
C27_RenameOntoKeyOverwrites ==
    [][(/\ ops' = ops + 1
        /\ last'.cmd \in {"rename_folder", "R"}
        /\ last'.src # last'.dst
        /\ last'.src \in KeySet(plan)
        /\ last'.dst \in KeySet(plan)) =>
            /\ Bucket(plan', last'.dst) = Bucket(plan, last'.src)
            /\ last'.src \notin KeySet(plan')
            /\ KeySet(plan') = KeySet(plan) \ {last'.src}
            /\ \A key \in KeySet(plan) \ {last'.src, last'.dst} :
                  Bucket(plan', key) = Bucket(plan, key)
            /\ \A j \in 1..Len(Bucket(plan, last'.dst)) :
                  (\E key \in KeySet(plan) \ {last'.dst} :
                      InList(Bucket(plan, last'.dst)[j], Bucket(plan, key)))
                  \/ Bucket(plan, last'.dst)[j] \notin Filed(plan')]_vars

\* C27 witness: a rename onto another key has been made, the new name
\* holds a result, and a result that names this folder is filed nowhere.
C27_Witness ==
    /\ pc = "api"
    /\ last.cmd = "rename_folder"
    /\ last.src # last.dst
    /\ Len(Bucket(plan, last.dst)) > 0
    /\ \E ref \in 1..Len(results) :
          /\ ref \notin Filed(plan)
          /\ results[ref].suggested_folder = last.dst

\* C28: in every state of main's plan, each filed result names the key it
\* is filed under, no file id is filed twice, and the result a move has just
\* re-filed is in a bucket.
C28_EachResultInItsOneBucket ==
    LET fa == plan.folder_assignments
        places == UNION {{<<b, j>> : j \in 1..Len(fa[b].files)} :
                         b \in 1..Len(fa)}
    IN /\ \A p \in places :
             results[fa[p[1]].files[p[2]]].suggested_folder = fa[p[1]].folder
       /\ \A p, q \in places :
             results[fa[p[1]].files[p[2]]].file_id
                 = results[fa[q[1]].files[q[2]]].file_id => p = q
       /\ (last.cmd = "M" /\ last.status = "moved") =>
             last.ref \in Filed(plan)

\* C28 witness: a move has re-filed a result of a plan that holds two files
\* under another key than the one it was taken from.
C28_Witness ==
    /\ pc = "review"
    /\ last.cmd = "M"
    /\ last.status = "moved"
    /\ last.src # last.dst
    /\ Cardinality(Filed(plan)) = 2

\* C29: every bucket key of a plan that was built from a rule-classified
\* batch and approved in the review is in the plan's new_folders or is one
\* of the known folders, and an execution of such a plan that reaches the
\* move loop with every folder creation succeeded attempts the move of
\* every file of the plan.
C29_EveryBucketHasAFolder ==
    (use_mock /\ approved_plan.some) =>
        /\ \A key \in KeySet(approved_plan.plan) :
              \/ key \in approved_plan.plan.new_folders
              \/ InList(key, folder_names)
        /\ (/\ pc = "done"
            /\ outcome = "complete"
            /\ approved_plan.plan.new_folders # {}
            /\ \A c \in store_log.creates : c.ok) =>
               Len(store_log.moves)
                   = get_summary(approved_plan.plan).total_files

\* C30: a move that files a result under the key it was taken from leaves
\* the folder's kind as it was: a name of new_folders stays in new_folders
\* and out of existing_folders, a name of existing_folders stays in
\* existing_folders.
C30_MoveOntoOwnFolderKeepsKind ==
    [][(/\ ops' = ops + 1
        /\ last'.cmd = "M"
        /\ last'.status = "moved"
        /\ last'.src = last'.dst) =>
            /\ (/\ last'.src \in plan.new_folders
                /\ last'.src \notin plan.existing_folders) =>
                   /\ last'.src \in plan'.new_folders
                   /\ last'.src \notin plan'.existing_folders
            /\ last'.src \in plan.existing_folders =>
                   last'.src \in plan'.existing_folders]_vars

\* The orders a batch of n files can be put in.
Orders(n) ==
    {f \in [1..n -> 1..n] : \A j, k \in 1..n : f[j] = f[k] => j = k}

\* The folder names that some result of the list marks as new.
MarkedNew(list) ==
    {list[k].suggested_folder : k \in {j \in 1..Len(list) :
                                          list[j].is_new_folder}}

\* C31: when classify_multiple has returned in mock mode, the same files
\* classified in any other order against the same known folders get, file
\* by file, the folder they got in this call, and the folder names marked
\* new by some result are the same.
C31_OrderChangesOnlyTheFlags ==
    (pc = "returned" /\ use_mock) =>
        \A f \in Orders(Len(loose_files)) :
            LET files == [k \in 1..Len(loose_files) |-> loose_files[f[k]]]
                other == MockClassifyMultiple(files, folder_names)
            IN /\ \A k \in 1..Len(files) :
                     /\ other[k].file_id = results[f[k]].file_id
                     /\ other[k].suggested_folder
                           = results[f[k]].suggested_folder
               /\ MarkedNew(other) = MarkedNew(results)

\* C31 witness: the call has returned in mock mode for two files that got
\* the same folder, the first marked new and the second not, so that the
\* other order gives each of the two files the other flag.
C31_Witness ==
    /\ pc = "returned"
    /\ use_mock
    /\ Len(results) = 2
    /\ results[1].suggested_folder = results[2].suggested_folder
    /\ results[1].is_new_folder
    /\ ~results[2].is_new_folder
    /\ MockClassifyMultiple(<<loose_files[2], loose_files[1]>>,
                            folder_names)[2].is_new_folder
           # results[1].is_new_folder

\* C32: a folder creation is only ever attempted for a name of the approved
\* plan's new_folders; once the create loop is over, and so whenever a file
\* move has been attempted, exactly one creation has been attempted for
\* each of these names; and no move has been attempted while the create
\* loop has yet to run.
C32_OneCreationPerNewFolderBeforeMoves ==
    LET names == {c.name : c \in store_log.creates}
        new_folders == approved_plan.plan.new_folders
    IN /\ names \subseteq new_folders
       /\ Cardinality(store_log.creates) = Cardinality(names)
       /\ pc \in {"execute", "create"} =>
             store_log.moves = <<>>
       /\ (\/ pc = "move"
           \/ store_log.moves # <<>>
           \/ (pc = "done" /\ outcome = "complete")) =>
              names = new_folders

\* C32 witness: the execution of a plan with two new folders has ended
\* with a file move attempted.
C32_Witness ==
    /\ pc = "done"
    /\ outcome = "complete"
    /\ Cardinality(approved_plan.plan.new_folders) = 2
    /\ Cardinality(store_log.creates) = 2
    /\ store_log.moves # <<>>

====
